---- MODULE Spec2Model ----
(***************************************************************************)
(* Model of rmw_zenoh_cpp/src/detail:                                      *)
(*   attachment_helpers.cpp   get_attachment, get_gid_from_attachment,     *)
(*                            get_int64_from_attachment                    *)
(*   zenoh_router_check.cpp   zenoh_router_check                           *)
(*   rmw_context_impl_s.cpp   construction, discovery callback, shutdown,  *)
(*                            destruction, accessors, entity ids           *)
(*                                                                         *)
(* Text and byte strings are sequences of byte values (0..255); a C string *)
(* is the part of such a sequence before its first 0 byte.                 *)
(***************************************************************************)
EXTENDS Integers, Sequences, FiniteSets, TLC

VARIABLES
  \* ---- attachment codec (attachment_helpers.cpp)
  attachment,      \* the received attachment: a sequence of [key, val] pairs
  op,              \* the codec call made on it: "none", "lookup", "gid", "int64"
  op_key,          \* the key / name argument of that call
  res,             \* what the call produced
  \* ---- constructor rmw_context_impl_s::rmw_context_impl_s and its locals
  ctor_pc,         \* where the constructor stands
  err,             \* the failure it reported: "none", "config", "open", ...
  shm_enabled,     \* the configuration asks for shared memory (line 192)
  configured,      \* configured_connection_attempts: [has, n]
  ret,             \* ret of the retry loop (lines 214-223)
  connection_attempts,
  close_session,   \* scope exit of line 204: "none", "armed", "cancelled"
  free_shm_provider, \* scope exit of line 255
  \* ---- zenoh_router_check
  probe_ctx,       \* *context, the int the reply callback counts in
  probe_delivered, \* replies the transport delivered during the call
  probe_results,   \* the finished zenoh_router_check calls of the retry loop
  \* ---- resources
  session,         \* z_owned_session_t: "none", "open", "moved"
  shm_provider,    \* optional provider: "nullopt", "held", "dropped"
  graph_subscriber, \* handle: "invalid", "failed", "declared", "undeclared"
  \* ---- rmw_context_impl_s::Data
  data_made,       \* data_ holds a Data
  is_shutdown,
  is_initialized,
  next_entity_id,
  mutex,           \* holder of Data::mutex_, or "free"
  \* ---- threads
  pc,              \* position of every application / transport / destructor thread
  sd_ret,          \* the value a thread's shutdown() is about to return
  call_of,         \* number of a thread's shutdown() call (order of locking)
  cb_kind,         \* sample kind of the event a callback thread handles
  cb_late,         \* the callback locked after some shutdown() had returned
  cb_did,          \* graph cache call made by the current callback
  cb_trig,         \* the current callback triggered the guard condition
  cb_key,          \* key expression of the sample a callback thread handles
  cb_calls,        \* calls the current callback made on the cache and the guard condition, in order
  \* ---- history
  shutdown_calls,  \* shutdown() calls that have taken the lock
  shutdown_rets,   \* return values of the finished shutdown() calls, in order
  id_tmp,          \* the counter value a get_next_entity_id() call has read
  ids_returned,    \* values returned by get_next_entity_id(), in order
  events,          \* discovery events delivered so far
  log              \* transport operations issued, in order

codecVars == <<attachment, op, op_key, res>>
ctorVars  == <<ctor_pc, err, shm_enabled, configured, ret, connection_attempts,
               close_session, free_shm_provider>>
probeVars == <<probe_ctx, probe_delivered, probe_results>>
resVars   == <<session, shm_provider, graph_subscriber>>
dataVars  == <<data_made, is_shutdown, is_initialized, next_entity_id>>
cbVars    == <<cb_kind, cb_late, cb_did, cb_trig, cb_key, cb_calls, events>>
sdVars    == <<sd_ret, call_of, shutdown_calls, shutdown_rets>>
idVars    == <<id_tmp, ids_returned>>
ctxVars   == <<ctorVars, probeVars, resVars, dataVars, mutex, pc, cbVars, sdVars,
               id_tmp, ids_returned, log>>
vars      == <<codecVars, ctxVars>>

----------------------------------------------------------------------------
(* Bounds of the codec inputs.                                             *)

\* Width of long in the model; the program runs with 64 (LP64).
LongBits == 8
\* Longest attachment of the exhaustive family.
MaxPairs == 2
\* Longest text of the exhaustive family of malformed values.
MaxJunkLen == 3

\* RMW_GID_STORAGE_SIZE (rmw/types.h), used at attachment_helpers.cpp:77,86
RMW_GID_STORAGE_SIZE == 16

LONG_MAX == 2 ^ (LongBits - 1) - 1
LONG_MIN == -LONG_MAX - 1

----------------------------------------------------------------------------
(* Text helpers.                                                           *)

RECURSIVE DecDigits(_)
DecDigits(n) ==
  IF n < 10 THEN <<48 + n>> ELSE Append(DecDigits(n \div 10), 48 + (n % 10))

\* The decimal text a sender writes for the integer v.
ToDecimal(v) == IF v < 0 THEN <<45>> \o DecDigits(-v) ELSE DecDigits(v)

\* The code's literal 19 is the length of the decimal text of INT64_MAX
\* (comment at attachment_helpers.cpp:120-122); the model keeps that relation
\* for its width of long.
Int64StrLen == Len(DecDigits(LONG_MAX))

RECURSIVE NulIndex(_, _)
NulIndex(s, i) ==
  IF i > Len(s) THEN Len(s) + 1
  ELSE IF s[i] = 0 THEN i ELSE NulIndex(s, i + 1)

\* What a C string function sees of the bytes s: everything before the first 0.
CStr(s) == SubSeq(s, 1, NulIndex(s, 1) - 1)

\* strcmp(a, b) == 0
StrcmpEq(a, b) == CStr(a) = CStr(b)

Fill(b, n) == [i \in 1..n |-> b]

RECURSIVE SeqsUpTo(_, _)
SeqsUpTo(S, n) ==
  IF n = 0 THEN {<<>>}
  ELSE LET shorter == SeqsUpTo(S, n - 1)
       IN  shorter \cup {Append(s, c) : s \in shorter, c \in S}

----------------------------------------------------------------------------
(* zenoh-c calls the codec makes on a value.                               *)

\* z_bytes_deserialize_into_string succeeded: the bytes are text (no byte
\* that cannot occur in UTF-8; 255 stands for those).
DeserializesAsString(v) == \A i \in 1..Len(v) : v[i] < 128

\* z_bytes_deserialize_into_string(val_, val): the text, or the null string
\* when the bytes are not text.
DeserializeIntoString(v) == IF DeserializesAsString(v) THEN v ELSE <<>>

\* z_string_check(val): false for the null (empty) string.
z_string_check(s) == Len(s) > 0

----------------------------------------------------------------------------
(* get_attachment, attachment_helpers.cpp:28-74                            *)

IsPrefix(a, b) == Len(a) <= Len(b) /\ SubSeq(b, 1, Len(a)) = a

\* strcmp(z_string_data(z_loan(key_string)), key.c_str()) == 0, line 48.
\* The text of a zenoh string is z_string_len bytes with no terminating 0
\* behind them (the repository reads such text by its length everywhere
\* else: rmw_context_impl_s.cpp:58 and 240, and lines 125-126 here terminate
\* a copy before handing it to strtol).  strcmp stops inside the text when it
\* meets a 0 byte or a difference there; when the whole text equals the
\* beginning of the key it reads on behind the text, and the result depends
\* on bytes that are not the text's: either result can come out.
KeyMatchOutcomes(text, key) ==
  IF NulIndex(text, 1) <= Len(text) THEN {StrcmpEq(text, key)}
  ELSE IF IsPrefix(text, CStr(key)) THEN BOOLEAN
  ELSE {FALSE}

\* The while loop of lines 39-63: the places at which the scan can stop with
\* found = true; 0 stands for the iterator running out.
RECURSIVE ScanOutcomes(_, _, _)
ScanOutcomes(att, key, i) ==
  IF i > Len(att) THEN {0}
  ELSE LET m == KeyMatchOutcomes(att[i].key, key)
       IN  (IF TRUE \in m THEN {i} ELSE {})
             \cup (IF FALSE \in m THEN ScanOutcomes(att, key, i + 1) ELSE {})

\* The validity test of lines 69-71.
ValueAccepted(val) == z_string_check(val)

\* The set of results the call can produce:
\* [ok: the return value, val: *val, written: whether *val was written,
\*  at: the place of the pair the scan stopped at, 0 for none]
get_attachment(att, key) ==
  IF Len(att) = 0
  THEN {[ok |-> FALSE, val |-> <<>>, written |-> FALSE, at |-> 0]}
  ELSE {IF i = 0
        THEN [ok |-> FALSE, val |-> <<>>, written |-> FALSE, at |-> 0]
        ELSE LET val == DeserializeIntoString(att[i].val)
             IN  [ok |-> ValueAccepted(val), val |-> val, written |-> TRUE,
                  at |-> i]
          : i \in ScanOutcomes(att, key, 1)}

----------------------------------------------------------------------------
(* z_drop(z_move(index)) on the caller's z_owned_string_t index            *)
(* (lines 79-81 and 104-106).  index is a local without initializer; it    *)
(* holds a string only when get_attachment wrote it.  Dropping it          *)
(* unwritten is a drop of an indeterminate value: the call may come back   *)
(* or the process may stop there.                                          *)
DropIndexOutcomes(written) ==
  IF written THEN {"returned"} ELSE {"returned", "crashed"}

----------------------------------------------------------------------------
(* get_gid_from_attachment, attachment_helpers.cpp:76-95                   *)

\* The length test of line 86 (true: the value is rejected).
GidLenRejected(len) == len # RMW_GID_STORAGE_SIZE

\* The set of results the call can produce:
\* [outcome, ok: the return value, gid: the bytes copied out,
\*  drops: z_drop calls on index, written: index was written by the lookup,
\*  lookup: what get_attachment returned]
get_gid_from_attachment(att) ==
  UNION {
    IF ~r.ok
    THEN {[outcome |-> o, ok |-> FALSE, gid |-> <<>>, drops |-> 1,
           written |-> r.written, lookup |-> FALSE]
            : o \in DropIndexOutcomes(r.written)}
    ELSE IF GidLenRejected(Len(r.val))
    THEN {[outcome |-> "returned", ok |-> FALSE, gid |-> <<>>, drops |-> 0,
           written |-> TRUE, lookup |-> TRUE]}
    ELSE {[outcome |-> "returned", ok |-> TRUE, gid |-> r.val, drops |-> 1,
           written |-> TRUE, lookup |-> TRUE]}
      : r \in get_attachment(att, <<115, 111, 117, 114, 99, 101, 95, 103, 105, 100>>)}

----------------------------------------------------------------------------
(* strtol(int64_str, &endptr, 10), attachment_helpers.cpp:130              *)

IsSpace(c) == c \in {9, 10, 11, 12, 13, 32}
IsDigit(c) == c \in 48..57

RECURSIVE SkipSpace(_, _)
SkipSpace(s, i) ==
  IF i <= Len(s) /\ IsSpace(s[i]) THEN SkipSpace(s, i + 1) ELSE i

\* Consume digits from position i; the magnitude saturates at limit.
RECURSIVE ScanDigits(_, _, _, _, _)
ScanDigits(s, i, acc, ovf, limit) ==
  IF i <= Len(s) /\ IsDigit(s[i])
  THEN LET next == acc * 10 + (s[i] - 48)
       IN  IF ovf \/ next > limit
           THEN ScanDigits(s, i + 1, limit, TRUE, limit)
           ELSE ScanDigits(s, i + 1, next, FALSE, limit)
  ELSE [end |-> i, acc |-> acc, ovf |-> ovf]

\* s is the C string handed to strtol.
\* [num: the value returned, end: index of *endptr in s (Len(s)+1 is the
\*  terminating 0), erange: errno was set to ERANGE]
Strtol(s) ==
  LET i0    == SkipSpace(s, 1)
      neg   == i0 <= Len(s) /\ s[i0] = 45
      plus  == i0 <= Len(s) /\ s[i0] = 43
      i1    == IF neg \/ plus THEN i0 + 1 ELSE i0
      limit == IF neg THEN -LONG_MIN ELSE LONG_MAX
      d     == ScanDigits(s, i1, 0, FALSE, limit)
  IN  IF d.end = i1
      THEN [num |-> 0, end |-> 1, erange |-> FALSE]
      ELSE [num |-> IF neg THEN -d.acc ELSE d.acc, end |-> d.end,
            erange |-> d.ovf]

----------------------------------------------------------------------------
(* get_int64_from_attachment, attachment_helpers.cpp:97-146                *)

\* The length tests of lines 111 and 115 (true: the value is rejected).
Int64LenRejected(len) == len < 1 \/ len > Int64StrLen

\* Lines 123-145: copy len bytes, terminate, convert, and sort out the result.
ParseInt64(val) ==
  LET int64_str == CStr(val)
      p         == Strtol(int64_str)
  IN  IF p.num = 0 THEN -1
      ELSE IF p.end = 1 THEN -1
      ELSE IF p.end <= Len(int64_str) THEN -1
      ELSE IF p.erange THEN -1
      ELSE p.num

\* The set of results the call can produce:
\* [outcome, ret: the return value, drops: z_drop calls on index,
\*  written: index was written by the lookup,
\*  lookup: what get_attachment returned, FALSE when it was not called]
get_int64_from_attachment(att, name) ==
  IF Len(att) = 0
  THEN {[outcome |-> "returned", ret |-> -1, drops |-> 0, written |-> FALSE,
         lookup |-> FALSE]}
  ELSE UNION {
         IF ~r.ok
         THEN {[outcome |-> o, ret |-> -1, drops |-> 1, written |-> r.written,
                lookup |-> FALSE] : o \in DropIndexOutcomes(r.written)}
         ELSE IF Int64LenRejected(Len(r.val))
         THEN {[outcome |-> "returned", ret |-> -1, drops |-> 0,
                written |-> TRUE, lookup |-> TRUE]}
         ELSE {[outcome |-> "returned", ret |-> ParseInt64(r.val),
                drops |-> 0, written |-> TRUE, lookup |-> TRUE]}
           : r \in get_attachment(att, name)}

----------------------------------------------------------------------------
(* Inputs of the codec specification.                                      *)

GidKey  == <<115, 111, 117, 114, 99, 101, 95, 103, 105, 100>>  \* "source_gid"
SeqKey  == <<115, 110>>                                        \* "sn"
\* "source_" (a proper prefix), and "source_gid" followed by a 0 byte and "x"
KeySet  == {GidKey, SeqKey, SubSeq(GidKey, 1, 7), GidKey \o <<0, 120>>}
\* the keys callers look up: the two names and one that no pair carries
LookupKeys == {GidKey, SeqKey, <<122>>}

\* values of the exhaustive family: empty, "1", "2", one byte that is not text
SmallVals == {<<>>, <<49>>, <<50>>, <<255>>}

\* decimal texts around every limit of the conversion
IntTexts ==
  {ToDecimal(v) : v \in (LONG_MIN - 1)..(LONG_MAX + 1)}
    \cup {ToDecimal(10 ^ Int64StrLen - 1), ToDecimal(10 ^ Int64StrLen),
          ToDecimal(1 - 10 ^ Int64StrLen)}

\* malformed texts: '0' '1' 'x' ' ' '-' '+' and the 0 byte
JunkTexts == SeqsUpTo({48, 49, 120, 32, 45, 43, 0}, MaxJunkLen)

\* values around the GID size, of text bytes and of non-text bytes
GidVals ==
  {Fill(b, n) : b \in {7, 255},
                n \in (RMW_GID_STORAGE_SIZE - 1)..(RMW_GID_STORAGE_SIZE + 1)}
    \cup {<<255>> \o Fill(7, RMW_GID_STORAGE_SIZE - 1),
          Fill(7, RMW_GID_STORAGE_SIZE - 1) \o <<0>>}

ValueSet == IntTexts \cup JunkTexts \cup GidVals

Pair(k, v) == [key |-> k, val |-> v]

Attachments ==
  SeqsUpTo({Pair(k, v) : k \in KeySet, v \in SmallVals}, MaxPairs)
    \cup {<<Pair(k, v)>> : k \in {GidKey, SeqKey}, v \in ValueSet}
    \cup {<<Pair(SubSeq(GidKey, 1, 7), <<49>>), Pair(k, v)>>
            : k \in {GidKey, SeqKey}, v \in ValueSet}

NoRes == [outcome |-> "none"]

----------------------------------------------------------------------------
(* The codec specification: one attachment arrives, one call is made on it. *)

Lookup(key) ==
  /\ op = "none"
  /\ op' = "lookup"
  /\ op_key' = key
  /\ res' \in get_attachment(attachment, key)
  /\ UNCHANGED attachment

ExtractGid ==
  /\ op = "none"
  /\ op' = "gid"
  /\ op_key' = GidKey
  /\ res' \in get_gid_from_attachment(attachment)
  /\ UNCHANGED attachment

ExtractInt64(name) ==
  /\ op = "none"
  /\ op' = "int64"
  /\ op_key' = name
  /\ res' \in get_int64_from_attachment(attachment, name)
  /\ UNCHANGED attachment

----------------------------------------------------------------------------
(* Context: bounds, threads, initial state.                                *)

\* Largest configured retry budget tried.
MaxAttempts == 2
\* Most identity replies the transport delivers to one probe call.
MaxReplies == 2
\* shutdown() calls made by application threads (the destructor adds one).
MaxShutdownCalls == 2
\* get_next_entity_id() calls.
MaxIds == 2
\* Discovery events delivered.
MaxEvents == 2

AppThreads == {"a1", "a2"}
CbThreads  == {"t1", "t2"}
Threads    == AppThreads \cup CbThreads \cup {"dtor"}

Budgets == {[has |-> FALSE, n |-> 0]} \cup {[has |-> TRUE, n |-> k] : k \in 0..MaxAttempts}

ReleaseActs == {"undeclare", "drop_shm", "z_close"}

\* A transport operation as it is issued: what, on a handle in which state,
\* and by which shutdown() call (0: not by shutdown()).
Event(act, on, call) == [act |-> act, on |-> on, call |-> call]

CtxInit ==
  /\ ctor_pc = "start"
  /\ err = "none"
  /\ shm_enabled = FALSE
  /\ configured = [has |-> FALSE, n |-> 0]
  /\ ret = "OK"
  /\ connection_attempts = 0
  /\ close_session = "none"
  /\ free_shm_provider = "none"
  /\ probe_ctx = 0
  /\ probe_delivered = 0
  /\ probe_results = <<>>
  /\ session = "none"
  /\ shm_provider = "nullopt"
  /\ graph_subscriber = "invalid"
  /\ data_made = FALSE
  /\ is_shutdown = FALSE
  /\ is_initialized = FALSE
  /\ next_entity_id = 0
  /\ mutex = "free"
  /\ pc = [t \in Threads |-> "idle"]
  /\ sd_ret = [t \in Threads |-> "OK"]
  /\ call_of = [t \in Threads |-> 0]
  /\ cb_kind = [t \in CbThreads |-> "none"]
  /\ cb_late = [t \in CbThreads |-> FALSE]
  /\ cb_did = [t \in CbThreads |-> "none"]
  /\ cb_trig = [t \in CbThreads |-> FALSE]
  /\ cb_key = [t \in CbThreads |-> ""]
  /\ cb_calls = [t \in CbThreads |-> <<>>]
  /\ shutdown_calls = 0
  /\ shutdown_rets = <<>>
  /\ id_tmp = [t \in AppThreads |-> 0]
  /\ ids_returned = <<>>
  /\ events = 0
  /\ log = <<>>

Init ==
  /\ CtxInit
  /\ attachment = <<>>
  /\ op = "none"
  /\ op_key = <<>>
  /\ res = NoRes

----------------------------------------------------------------------------
(* Scope exits of the constructor (rcpputils::make_scope_exit).            *)

\* close_session cancelled before the last throw of the constructor body.
CloseSessionExitCancelled(armed, s) == s

\* close_session, lines 204-207: what it does to the session when the
\* constructor body is left by an exception.
CloseSessionExit(armed, s) == IF armed = "armed" THEN "moved" ELSE s

\* free_shm_provider, lines 255-260.
FreeShmExit(armed, p) == IF armed = "armed" /\ p = "held" THEN "dropped" ELSE p

\* The operations the two scope exits issue, in order of destruction
\* (free_shm_provider, declared last, runs first).
UnwindLog ==
  (IF free_shm_provider = "armed" /\ shm_provider = "held"
     THEN <<Event("drop_shm", shm_provider, 0)>> ELSE <<>>)
  \o (IF close_session = "armed"
        THEN <<Event("z_close", session, 0)>> ELSE <<>>)

\* throw std::runtime_error out of the constructor body, before data_ exists.
Throw(e) ==
  /\ ctor_pc' = "failed"
  /\ err' = e
  /\ log' = log \o UnwindLog
  /\ shm_provider' = FreeShmExit(free_shm_provider, shm_provider)
  /\ session' = CloseSessionExit(close_session, session)

----------------------------------------------------------------------------
(* rmw_context_impl_s::rmw_context_impl_s, lines 175-276                   *)

\* Lines 180-196: get_z_config, then read the shared-memory setting.
CtorConfig ==
  /\ ctor_pc = "start"
  /\ \E ok \in BOOLEAN :
       IF ok
       THEN /\ ctor_pc' = "configured"
            /\ shm_enabled' \in BOOLEAN
            /\ UNCHANGED <<err, log, resVars>>
       ELSE /\ Throw("config")
            /\ UNCHANGED <<shm_enabled, graph_subscriber>>
  /\ UNCHANGED <<configured, ret, connection_attempts, close_session,
                 free_shm_provider, probeVars, dataVars, mutex, pc, cbVars,
                 sdVars, idVars, codecVars>>

\* Lines 198-215: z_open, the close_session scope exit, and the retry budget.
CtorOpen ==
  /\ ctor_pc = "configured"
  /\ \E ok \in BOOLEAN :
       IF ok
       THEN /\ session' = "open"
            /\ log' = Append(log, Event("z_open", session, 0))
            /\ close_session' = "armed"
            /\ configured' \in Budgets
            /\ ret' = IF configured'.has THEN "ERROR" ELSE ret
            /\ connection_attempts' = 0
            /\ ctor_pc' = "router"
            /\ UNCHANGED <<err, shm_provider>>
       ELSE /\ Throw("open")
            /\ UNCHANGED <<configured, ret, connection_attempts, close_session>>
  /\ UNCHANGED <<shm_enabled, free_shm_provider, graph_subscriber, probeVars,
                 dataVars, mutex, pc, cbVars, sdVars, idVars, codecVars>>

\* The loop condition with <= for <.
RetryLoopContinuesOffByOne(r, attempts, budget) == r # "OK" /\ attempts <= budget

\* The loop condition of line 217.
RetryLoopContinues(r, attempts, budget) == r # "OK" /\ attempts < budget

\* zenoh_router_check, lines 51-56 and 68-69: the counter is allocated and
\* zeroed, and the identity query is issued.
ProbeBegin ==
  /\ ctor_pc = "router"
  /\ configured.has
  /\ RetryLoopContinues(ret, connection_attempts, configured.n)
  /\ ctor_pc' = "probe"
  /\ probe_ctx' = 0
  /\ probe_delivered' = 0
  /\ UNCHANGED <<err, shm_enabled, configured, ret, connection_attempts,
                 close_session, free_shm_provider, probe_results, resVars, dataVars, mutex, pc,
                 cbVars, sdVars, idVars, log, codecVars>>

\* A reply callback that sets a flag instead of counting.
CountReplyFlag(c) == 1

\* The reply callback, line 65.
CountReply(c) == c + 1

\* zenoh_router_check, lines 58-66: the transport delivers one identity reply.
ProbeReply ==
  /\ ctor_pc = "probe"
  /\ probe_delivered < MaxReplies
  /\ probe_delivered' = probe_delivered + 1
  /\ probe_ctx' = CountReply(probe_ctx)
  /\ UNCHANGED <<ctorVars, probe_results, resVars, dataVars, mutex, pc, cbVars,
                 sdVars, idVars, log, codecVars>>

\* zenoh_router_check, lines 71-83: the result from the counter.
ProbeResult(c) == IF c = 0 THEN "ERROR" ELSE "OK"

\* zenoh_router_check returns (lines 71-87); the loop body of lines 218-221.
ProbeEnd ==
  /\ ctor_pc = "probe"
  /\ ret' = ProbeResult(probe_ctx)
  /\ connection_attempts' =
       IF ret' # "OK" THEN connection_attempts + 1 ELSE connection_attempts
  /\ ctor_pc' = "router"
  /\ probe_results' = Append(probe_results,
                             [delivered |-> probe_delivered, count |-> probe_ctx,
                              ret |-> ret'])
  /\ UNCHANGED <<err, shm_enabled, configured, close_session, free_shm_provider,
                 probe_ctx, probe_delivered, resVars, dataVars, mutex, pc, cbVars, sdVars,
                 idVars, log, codecVars>>

\* Lines 213, 217, 223-229: the check is skipped, or the loop is left.
RouterDone ==
  /\ ctor_pc = "router"
  /\ ~(configured.has /\ RetryLoopContinues(ret, connection_attempts, configured.n))
  /\ IF configured.has /\ ret # "OK"
     THEN Throw("router")
     ELSE /\ ctor_pc' = "routed"
          /\ UNCHANGED <<err, log, session, shm_provider>>
  /\ UNCHANGED <<shm_enabled, configured, ret, connection_attempts, close_session,
                 free_shm_provider, probeVars, graph_subscriber, dataVars, mutex,
                 pc, cbVars, sdVars, idVars, codecVars>>

\* Lines 231-270: the shared-memory provider, the free_shm_provider scope
\* exit, both cancels, and make_shared<Data> (Data::Data, lines 81-99).  The
\* locals of the router check are dead from here on.
CtorShmAndData ==
  /\ ctor_pc = "routed"
  /\ \E ok \in BOOLEAN :
       IF shm_enabled /\ ~ok
       THEN /\ Throw("shm")
            /\ UNCHANGED <<close_session, free_shm_provider, dataVars>>
       ELSE /\ shm_provider' = IF shm_enabled THEN "held" ELSE "nullopt"
            /\ log' = IF shm_enabled
                        THEN Append(log, Event("shm_new", shm_provider, 0))
                        ELSE log
            /\ close_session' = "cancelled"
            /\ free_shm_provider' = "cancelled"
            /\ data_made' = TRUE
            /\ is_shutdown' = FALSE
            /\ next_entity_id' = 0
            /\ is_initialized' = FALSE
            /\ ctor_pc' = "subscribe"
            /\ UNCHANGED <<err, session>>
  /\ configured' = [has |-> FALSE, n |-> 0]
  /\ ret' = "OK"
  /\ connection_attempts' = 0
  /\ probe_ctx' = 0
  /\ probe_delivered' = 0
  /\ probe_results' = <<>>
  /\ UNCHANGED <<shm_enabled, graph_subscriber, mutex, pc, cbVars, sdVars,
                 idVars, codecVars>>

----------------------------------------------------------------------------
(* rmw_context_impl_s::Data::subscribe_to_ros_graph, lines 102-144,        *)
(* called at line 272.                                                     *)

\* Line 104.  (is_initialized_ is false on this only call, lines 105-107.)
SubLock ==
  /\ ctor_pc = "subscribe"
  /\ mutex = "free"
  /\ ~is_initialized
  /\ mutex' = "ctor"
  /\ ctor_pc' = "sub_locked"
  /\ UNCHANGED <<err, shm_enabled, configured, ret, connection_attempts,
                 close_session, free_shm_provider, probeVars, resVars, dataVars,
                 pc, cbVars, sdVars, idVars, log, codecVars>>

\* Lines 120-139: zc_liveliness_declare_subscriber, with the lock held.
SubDeclare ==
  /\ ctor_pc = "sub_locked"
  /\ \E ok \in BOOLEAN :
       /\ graph_subscriber' = IF ok THEN "declared" ELSE "failed"
       /\ ctor_pc' = IF ok THEN "sub_declared" ELSE "sub_failed"
       /\ log' = Append(log, Event(IF ok THEN "declare" ELSE "declare_failed",
                                   graph_subscriber, 0))
  /\ UNCHANGED <<err, shm_enabled, configured, ret, connection_attempts,
                 close_session, free_shm_provider, probeVars, session,
                 shm_provider, dataVars, mutex, pc, cbVars, sdVars, idVars,
                 codecVars>>

\* Lines 141-143, then the constructor returns (line 276).
SubReturnOk ==
  /\ ctor_pc = "sub_declared"
  /\ is_initialized' = TRUE
  /\ mutex' = "free"
  /\ ctor_pc' = "done"
  /\ UNCHANGED <<err, shm_enabled, configured, ret, connection_attempts,
                 close_session, free_shm_provider, probeVars, resVars, data_made,
                 is_shutdown, next_entity_id, pc, cbVars, sdVars, idVars,
                 log, codecVars>>

\* Lines 136-138: the undeclare_z_sub scope exit (lines 128-131) runs, the
\* lock is released, and the constructor throws (lines 273-275): the
\* exception destroys data_, so ~Data (lines 168-172) calls shutdown().
SubReturnErr ==
  /\ ctor_pc = "sub_failed"
  /\ log' = Append(log, Event("undeclare", graph_subscriber, 0))
  /\ mutex' = "free"
  /\ ctor_pc' = "throwing"
  /\ pc' = [pc EXCEPT !["dtor"] = "sd_wait"]
  /\ UNCHANGED <<err, shm_enabled, configured, ret, connection_attempts,
                 close_session, free_shm_provider, probeVars, resVars, dataVars,
                 cbVars, sdVars, idVars, codecVars>>

----------------------------------------------------------------------------
(* rmw_context_impl_s::Data::shutdown, lines 147-165, called by            *)
(* rmw_context_impl_s::shutdown (lines 314-317) and by ~Data (168-172).    *)

Callers == AppThreads \cup {"dtor"}

\* shutdown() calls of application threads begun so far.
AppShutdownsBegun ==
  Cardinality({t \in AppThreads : pc[t] = "sd_wait"})
    + shutdown_calls

\* The context is constructed and its destruction has not begun.
Usable == ctor_pc = "done" /\ pc["dtor"] = "idle"

ShutdownCall(t) ==
  /\ t \in AppThreads
  /\ Usable
  /\ pc[t] = "idle"
  /\ AppShutdownsBegun < MaxShutdownCalls
  /\ pc' = [pc EXCEPT ![t] = "sd_wait"]
  /\ UNCHANGED <<ctorVars, probeVars, resVars, dataVars, mutex, cbVars, sdVars,
                 idVars, log, codecVars>>

\* Lines 149-152.
ShutdownLock(t) ==
  /\ t \in Callers
  /\ pc[t] = "sd_wait"
  /\ mutex = "free"
  /\ mutex' = t
  /\ shutdown_calls' = shutdown_calls + 1
  /\ call_of' = [call_of EXCEPT ![t] = shutdown_calls + 1]
  /\ sd_ret' = [sd_ret EXCEPT ![t] = "OK"]
  /\ pc' = [pc EXCEPT ![t] = IF is_shutdown THEN "sd_ret" ELSE "sd_undeclare"]
  /\ UNCHANGED <<ctorVars, probeVars, resVars, dataVars, cbVars, shutdown_rets,
                 idVars, log, codecVars>>

\* shutdown() without the undeclare of line 154.
ShutdownUndeclareSkipped(t) ==
  /\ t \in Callers
  /\ pc[t] = "sd_undeclare"
  /\ pc' = [pc EXCEPT ![t] = "sd_shm"]
  /\ UNCHANGED <<ctorVars, probeVars, resVars, dataVars, mutex, cbVars, sdVars,
                 idVars, log, codecVars>>

\* Line 154.
ShutdownUndeclare(t) ==
  /\ t \in Callers
  /\ pc[t] = "sd_undeclare"
  /\ log' = Append(log, Event("undeclare", graph_subscriber, call_of[t]))
  /\ graph_subscriber' =
       IF graph_subscriber = "declared" THEN "undeclared" ELSE graph_subscriber
  /\ pc' = [pc EXCEPT ![t] = "sd_shm"]
  /\ UNCHANGED <<ctorVars, probeVars, session, shm_provider, dataVars, mutex,
                 cbVars, sdVars, idVars, codecVars>>

\* Lines 155-157.  The optional keeps its value after z_drop.
ShutdownDropShm(t) ==
  /\ t \in Callers
  /\ pc[t] = "sd_shm"
  /\ IF shm_provider # "nullopt"
     THEN /\ log' = Append(log, Event("drop_shm", shm_provider, call_of[t]))
          /\ shm_provider' = "dropped"
     ELSE UNCHANGED <<log, shm_provider>>
  /\ pc' = [pc EXCEPT ![t] = "sd_close"]
  /\ UNCHANGED <<ctorVars, probeVars, session, graph_subscriber, dataVars, mutex,
                 cbVars, sdVars, idVars, codecVars>>

\* shutdown() setting is_shutdown_ whatever z_close returned.
ShutdownFlagAlwaysSet(ok, flag) == TRUE

\* Lines 159-163: is_shutdown_ after z_close returned; the assignment of
\* line 163 is reached only when z_close returned Z_OK.
ShutdownFlagAfterClose(ok, flag) == IF ok THEN TRUE ELSE flag

\* Lines 159-164.  z_close consumes the session whatever it returns.
ShutdownClose(t) ==
  /\ t \in Callers
  /\ pc[t] = "sd_close"
  /\ log' = Append(log, Event("z_close", session, call_of[t]))
  /\ session' = "moved"
  /\ \E ok \in BOOLEAN :
       /\ is_shutdown' = ShutdownFlagAfterClose(ok, is_shutdown)
       /\ sd_ret' = [sd_ret EXCEPT ![t] = IF ok THEN "OK" ELSE "ERROR"]
  /\ pc' = [pc EXCEPT ![t] = "sd_ret"]
  /\ UNCHANGED <<ctorVars, probeVars, shm_provider, graph_subscriber, data_made,
                 is_initialized, next_entity_id, mutex, cbVars, call_of,
                 shutdown_calls, shutdown_rets, idVars, codecVars>>

\* A return out of shutdown() that leaves the mutex locked.
ShutdownReturnKeepsLock(t) ==
  /\ t \in Callers
  /\ pc[t] = "sd_ret"
  /\ shutdown_rets' = Append(shutdown_rets, sd_ret[t])
  /\ pc' = [pc EXCEPT ![t] = IF t = "dtor" THEN "destroyed" ELSE "idle"]
  /\ ctor_pc' = IF t = "dtor" /\ ctor_pc = "throwing" THEN "failed" ELSE ctor_pc
  /\ err' = IF t = "dtor" /\ ctor_pc = "throwing" THEN "subscribe" ELSE err
  /\ UNCHANGED <<shm_enabled, configured, ret, connection_attempts,
                 close_session, free_shm_provider, probeVars, resVars, dataVars,
                 mutex, cbVars, sd_ret, call_of, shutdown_calls, idVars, log,
                 codecVars>>

\* return: the lock_guard releases the lock.  A return into ~Data ends the
\* destruction; when that was the constructor's exception, the error reaches
\* the caller now.
ShutdownReturn(t) ==
  /\ t \in Callers
  /\ pc[t] = "sd_ret"
  /\ mutex' = "free"
  /\ shutdown_rets' = Append(shutdown_rets, sd_ret[t])
  /\ pc' = [pc EXCEPT ![t] = IF t = "dtor" THEN "destroyed" ELSE "idle"]
  /\ ctor_pc' = IF t = "dtor" /\ ctor_pc = "throwing" THEN "failed" ELSE ctor_pc
  /\ err' = IF t = "dtor" /\ ctor_pc = "throwing" THEN "subscribe" ELSE err
  /\ UNCHANGED <<shm_enabled, configured, ret, connection_attempts,
                 close_session, free_shm_provider, probeVars, resVars, dataVars,
                 cbVars, sd_ret, call_of, shutdown_calls, idVars, log,
                 codecVars>>

\* ~rmw_context_impl_s releases data_: ~Data, lines 168-172.  The owner
\* destroys the context when no thread is inside one of its methods; the
\* model lets it do so only while no discovery callback is in flight
\* (the raw Data pointer of the callback, lines 110-119, is not followed
\* into freed storage).
Destroy ==
  /\ Usable
  /\ \A t \in AppThreads \cup CbThreads : pc[t] = "idle"
  /\ pc' = [pc EXCEPT !["dtor"] = "sd_wait"]
  /\ UNCHANGED <<ctorVars, probeVars, resVars, dataVars, mutex, cbVars, sdVars,
                 idVars, log, codecVars>>

----------------------------------------------------------------------------
(* rmw_context_impl_s::graph_sub_data_handler, lines 39-78, run by the     *)
(* transport's delivery threads while the subscription is declared.        *)

SampleKinds == {"PUT", "DELETE", "OTHER"}

\* Key expressions of the liveliness tokens delivered.
SampleKeys == {"@ros2_lv/0/a", "@ros2_lv/0/b"}

\* The transport invokes the callback (lines 39-51; data is never null).
CbDeliver(c, kind, key) ==
  /\ c \in CbThreads
  /\ pc[c] = "idle"
  /\ graph_subscriber = "declared"
  /\ pc["dtor"] = "idle"
  /\ events < MaxEvents
  /\ events' = events + 1
  /\ cb_kind' = [cb_kind EXCEPT ![c] = kind]
  /\ cb_key' = [cb_key EXCEPT ![c] = key]
  /\ pc' = [pc EXCEPT ![c] = "cb_wait"]
  /\ UNCHANGED <<ctorVars, probeVars, resVars, dataVars, mutex, cb_late, cb_did,
                 cb_trig, cb_calls, sdVars, idVars, log, codecVars>>

\* The callback without the lock_guard of line 54.
CbLockMissing(c) ==
  /\ c \in CbThreads
  /\ pc[c] = "cb_wait"
  /\ cb_late' = [cb_late EXCEPT ![c] = Len(shutdown_rets) > 0]
  /\ pc' = [pc EXCEPT ![c] = "cb_locked"]
  /\ UNCHANGED <<ctorVars, probeVars, resVars, dataVars, mutex, cb_kind, cb_did,
                 cb_trig, cb_key, cb_calls, events, sdVars, idVars, log,
                 codecVars>>

\* Line 54.
CbLock(c) ==
  /\ c \in CbThreads
  /\ pc[c] = "cb_wait"
  /\ mutex = "free"
  /\ mutex' = c
  /\ cb_late' = [cb_late EXCEPT ![c] = Len(shutdown_rets) > 0]
  /\ pc' = [pc EXCEPT ![c] = "cb_locked"]
  /\ UNCHANGED <<ctorVars, probeVars, resVars, dataVars, cb_kind, cb_did, cb_trig,
                 cb_key, cb_calls, events, sdVars, idVars, log, codecVars>>

\* A switch without the case of lines 63-65.
CacheCallPutOnly(shut, kind) ==
  IF shut THEN "none"
  ELSE IF kind = "PUT" THEN "parse_put"
  ELSE "none"

\* Lines 55-68: the graph cache call the callback makes, "none" when it
\* returns without one.
CacheCall(shut, kind) ==
  IF shut THEN "none"
  ELSE IF kind = "PUT" THEN "parse_put"
  ELSE IF kind = "DELETE" THEN "parse_del"
  ELSE "none"

\* Line 58: std::string str(z_string_data(keystr), z_string_len(keystr)), the
\* copy by length of the key expression's text.
KeyText(keystr) == keystr

\* Lines 55-68: the shutdown test and the switch; the cache call begins.
CbDispatch(c) ==
  /\ c \in CbThreads
  /\ pc[c] = "cb_locked"
  /\ cb_did' = [cb_did EXCEPT ![c] = CacheCall(is_shutdown, cb_kind[c])]
  /\ cb_calls' =
       [cb_calls EXCEPT ![c] =
          IF cb_did'[c] = "none" THEN @
          ELSE Append(@, [call |-> cb_did'[c], arg |-> KeyText(cb_key[c])])]
  /\ pc' = [pc EXCEPT ![c] = IF cb_did'[c] = "none" THEN "cb_ret" ELSE "cb_parse"]
  /\ UNCHANGED <<ctorVars, probeVars, resVars, dataVars, mutex, cb_kind, cb_late,
                 cb_trig, cb_key, events, sdVars, idVars, log, codecVars>>

\* Lines 61/64 return, then lines 70-77: rmw_trigger_guard_condition, whose
\* failure is only logged.
CbTrigger(c) ==
  /\ c \in CbThreads
  /\ pc[c] = "cb_parse"
  /\ cb_trig' = [cb_trig EXCEPT ![c] = TRUE]
  /\ \E rmw_ret \in {"OK", "ERROR"} :
       cb_calls' = [cb_calls EXCEPT ![c] =
                      Append(@, [call |-> "trigger", arg |-> rmw_ret])]
  /\ pc' = [pc EXCEPT ![c] = "cb_ret"]
  /\ UNCHANGED <<ctorVars, probeVars, resVars, dataVars, mutex, cb_kind, cb_late,
                 cb_did, cb_key, events, sdVars, idVars, log, codecVars>>

\* Line 78 (and the returns of lines 56 and 67): the lock_guard releases.
CbReturn(c) ==
  /\ c \in CbThreads
  /\ pc[c] = "cb_ret"
  /\ mutex' = "free"
  /\ cb_kind' = [cb_kind EXCEPT ![c] = "none"]
  /\ cb_late' = [cb_late EXCEPT ![c] = FALSE]
  /\ cb_did' = [cb_did EXCEPT ![c] = "none"]
  /\ cb_trig' = [cb_trig EXCEPT ![c] = FALSE]
  /\ cb_key' = [cb_key EXCEPT ![c] = ""]
  /\ cb_calls' = [cb_calls EXCEPT ![c] = <<>>]
  /\ pc' = [pc EXCEPT ![c] = "idle"]
  /\ UNCHANGED <<ctorVars, probeVars, resVars, dataVars, events, sdVars,
                 idVars, log, codecVars>>

----------------------------------------------------------------------------
(* rmw_context_impl_s::get_next_entity_id, lines 307-311                   *)

\* get_next_entity_id() calls begun so far.
IdCallsBegun ==
  Len(ids_returned)
    + Cardinality({t \in AppThreads : pc[t] \in {"id_wait", "id_locked"}})

GetIdCall(t) ==
  /\ t \in AppThreads
  /\ Usable
  /\ pc[t] = "idle"
  /\ IdCallsBegun < MaxIds
  /\ pc' = [pc EXCEPT ![t] = "id_wait"]
  /\ UNCHANGED <<ctorVars, probeVars, resVars, dataVars, mutex, cbVars, sdVars,
                 idVars, log, codecVars>>

\* get_next_entity_id without the lock_guard of line 309.
GetIdLockMissing(t) ==
  /\ t \in AppThreads
  /\ pc[t] = "id_wait"
  /\ id_tmp' = [id_tmp EXCEPT ![t] = next_entity_id]
  /\ pc' = [pc EXCEPT ![t] = "id_locked"]
  /\ UNCHANGED <<ctorVars, probeVars, resVars, dataVars, mutex, cbVars, sdVars,
                 ids_returned, log, codecVars>>

\* Line 309, and the read of next_entity_id_ in line 310.
GetIdLock(t) ==
  /\ t \in AppThreads
  /\ pc[t] = "id_wait"
  /\ mutex = "free"
  /\ mutex' = t
  /\ id_tmp' = [id_tmp EXCEPT ![t] = next_entity_id]
  /\ pc' = [pc EXCEPT ![t] = "id_locked"]
  /\ UNCHANGED <<ctorVars, probeVars, resVars, dataVars, cbVars, sdVars,
                 ids_returned, log, codecVars>>

\* The counter after next_entity_id_++ (line 310).
PostIncrement(n) == n + 1

\* Line 310: the write of next_entity_id_++, the return of the value read,
\* and the release of the lock_guard.
GetIdReturn(t) ==
  /\ t \in AppThreads
  /\ pc[t] = "id_locked"
  /\ ids_returned' = Append(ids_returned, id_tmp[t])
  /\ next_entity_id' = PostIncrement(id_tmp[t])
  /\ id_tmp' = [id_tmp EXCEPT ![t] = 0]
  /\ mutex' = "free"
  /\ pc' = [pc EXCEPT ![t] = "idle"]
  /\ UNCHANGED <<ctorVars, probeVars, resVars, data_made, is_shutdown,
                 is_initialized, cbVars, sdVars, log, codecVars>>

----------------------------------------------------------------------------
(* The accessors enclave(), session(), shm_provider(),                     *)
(* graph_guard_condition(), is_shutdown(), graph_cache(): lines 279-304    *)
(* and 320-331.  Each locks, reads one field and returns.                  *)

AccessorCall(t) ==
  /\ t \in AppThreads
  /\ Usable
  /\ pc[t] = "idle"
  /\ pc' = [pc EXCEPT ![t] = "acc_wait"]
  /\ UNCHANGED <<ctorVars, probeVars, resVars, dataVars, mutex, cbVars, sdVars,
                 idVars, log, codecVars>>

AccessorLock(t) ==
  /\ t \in AppThreads
  /\ pc[t] = "acc_wait"
  /\ mutex = "free"
  /\ mutex' = t
  /\ pc' = [pc EXCEPT ![t] = "acc_locked"]
  /\ UNCHANGED <<ctorVars, probeVars, resVars, dataVars, cbVars, sdVars,
                 idVars, log, codecVars>>

AccessorReturn(t) ==
  /\ t \in AppThreads
  /\ pc[t] = "acc_locked"
  /\ mutex' = "free"
  /\ pc' = [pc EXCEPT ![t] = "idle"]
  /\ UNCHANGED <<ctorVars, probeVars, resVars, dataVars, cbVars, sdVars,
                 idVars, log, codecVars>>

----------------------------------------------------------------------------
(* Specifications.                                                         *)

Next ==
  \/ CtorConfig
  \/ CtorOpen
  \/ ProbeBegin
  \/ ProbeReply
  \/ ProbeEnd
  \/ RouterDone
  \/ CtorShmAndData
  \/ SubLock
  \/ SubDeclare
  \/ SubReturnOk
  \/ SubReturnErr
  \/ Destroy
  \/ \E t \in AppThreads : ShutdownCall(t)
  \/ \E t \in Callers : ShutdownLock(t)
  \/ \E t \in Callers : ShutdownUndeclare(t)
  \/ \E t \in Callers : ShutdownDropShm(t)
  \/ \E t \in Callers : ShutdownClose(t)
  \/ \E t \in Callers : ShutdownReturn(t)
  \/ \E c \in CbThreads, kind \in SampleKinds, key \in SampleKeys :
       CbDeliver(c, kind, key)
  \/ \E c \in CbThreads : CbLock(c)
  \/ \E c \in CbThreads : CbDispatch(c)
  \/ \E c \in CbThreads : CbTrigger(c)
  \/ \E c \in CbThreads : CbReturn(c)
  \/ \E t \in AppThreads : GetIdCall(t)
  \/ \E t \in AppThreads : GetIdLock(t)
  \/ \E t \in AppThreads : GetIdReturn(t)
  \/ \E t \in AppThreads : AccessorCall(t)
  \/ \E t \in AppThreads : AccessorLock(t)
  \/ \E t \in AppThreads : AccessorReturn(t)

\* The context: construction, concurrent use, shutdown, destruction.
Spec == Init /\ [][Next]_vars

InitCodec ==
  /\ CtxInit
  /\ attachment \in Attachments
  /\ op = "none"
  /\ op_key = <<>>
  /\ res = NoRes

NextCodec ==
  \/ \E key \in LookupKeys : Lookup(key) /\ UNCHANGED ctxVars
  \/ ExtractGid /\ UNCHANGED ctxVars
  \/ \E name \in LookupKeys : ExtractInt64(name) /\ UNCHANGED ctxVars

\* The attachment codec: a received attachment and one call on it.
SpecCodec == InitCodec /\ [][NextCodec]_vars

\* The state in which the constructor calls subscribe_to_ros_graph() (line
\* 272): the session is open, the shared-memory provider is there when the
\* configuration asked for it, data_ is made, both scope exits are cancelled.
InitLive ==
  /\ ctor_pc = "subscribe"
  /\ err = "none"
  /\ shm_enabled \in BOOLEAN
  /\ configured = [has |-> FALSE, n |-> 0]
  /\ ret = "OK"
  /\ connection_attempts = 0
  /\ close_session = "cancelled"
  /\ free_shm_provider = "cancelled"
  /\ probe_ctx = 0
  /\ probe_delivered = 0
  /\ probe_results = <<>>
  /\ session = "open"
  /\ shm_provider = IF shm_enabled THEN "held" ELSE "nullopt"
  /\ graph_subscriber = "invalid"
  /\ data_made = TRUE
  /\ is_shutdown = FALSE
  /\ is_initialized = FALSE
  /\ next_entity_id = 0
  /\ mutex = "free"
  /\ pc = [t \in Threads |-> "idle"]
  /\ sd_ret = [t \in Threads |-> "OK"]
  /\ call_of = [t \in Threads |-> 0]
  /\ cb_kind = [t \in CbThreads |-> "none"]
  /\ cb_late = [t \in CbThreads |-> FALSE]
  /\ cb_did = [t \in CbThreads |-> "none"]
  /\ cb_trig = [t \in CbThreads |-> FALSE]
  /\ cb_key = [t \in CbThreads |-> ""]
  /\ cb_calls = [t \in CbThreads |-> <<>>]
  /\ shutdown_calls = 0
  /\ shutdown_rets = <<>>
  /\ id_tmp = [t \in AppThreads |-> 0]
  /\ ids_returned = <<>>
  /\ events = 0
  /\ log = <<Event("z_open", "none", 0)>>
             \o (IF shm_enabled THEN <<Event("shm_new", "nullopt", 0)>> ELSE <<>>)
  /\ attachment = <<>>
  /\ op = "none"
  /\ op_key = <<>>
  /\ res = NoRes

\* The methods from subscribe_to_ros_graph() on, with one thread for each
\* kind of caller: a1 calls shutdown(), a2 calls get_next_entity_id() and
\* the accessors, t1 is the transport's delivery thread, and the owner
\* destroys the context.
NextLive ==
  \/ SubLock
  \/ SubDeclare
  \/ SubReturnOk
  \/ SubReturnErr
  \/ Destroy
  \/ ShutdownCall("a1")
  \/ \E t \in Callers : ShutdownLock(t)
  \/ \E t \in Callers : ShutdownUndeclare(t)
  \/ \E t \in Callers : ShutdownDropShm(t)
  \/ \E t \in Callers : ShutdownClose(t)
  \/ \E t \in Callers : ShutdownReturn(t)
  \/ \E kind \in SampleKinds, key \in SampleKeys : CbDeliver("t1", kind, key)
  \/ \E c \in CbThreads : CbLock(c)
  \/ \E c \in CbThreads : CbDispatch(c)
  \/ \E c \in CbThreads : CbTrigger(c)
  \/ \E c \in CbThreads : CbReturn(c)
  \/ GetIdCall("a2")
  \/ \E t \in AppThreads : GetIdLock(t)
  \/ \E t \in AppThreads : GetIdReturn(t)
  \/ AccessorCall("a2")
  \/ \E t \in AppThreads : AccessorLock(t)
  \/ \E t \in AppThreads : AccessorReturn(t)

\* A step of the thread that holds the mutex, up to its release.  At most
\* one thread holds it, so at most one of these is enabled at a time.
HolderStep ==
  \/ SubDeclare \/ SubReturnOk \/ SubReturnErr
  \/ \E t \in Callers :
       \/ ShutdownUndeclare(t) \/ ShutdownDropShm(t)
       \/ ShutdownClose(t) \/ ShutdownReturn(t)
  \/ \E c \in CbThreads : CbDispatch(c) \/ CbTrigger(c) \/ CbReturn(c)
  \/ \E t \in AppThreads : GetIdReturn(t) \/ AccessorReturn(t)

\* Fair scheduling: the thread inside a critical section goes on running
\* (weak fairness), and a thread waiting for the mutex gets it when the
\* mutex is free again and again (strong fairness of its lock step).  Calls,
\* deliveries and the destruction are the environment's and need not happen.
FairnessLive ==
  /\ WF_vars(HolderStep)
  /\ WF_vars(SubLock)
  /\ SF_vars(ShutdownLock("a1"))
  /\ SF_vars(ShutdownLock("dtor"))
  /\ SF_vars(CbLock("t1"))
  /\ SF_vars(GetIdLock("a2"))
  /\ SF_vars(AccessorLock("a2"))

\* The constructed context in use, under fair scheduling.
SpecLive == InitLive /\ [][NextLive]_vars /\ FairnessLive

----------------------------------------------------------------------------
(* Properties of the context.                                              *)

\* Places in the log of the operations act that shutdown() calls issued.
ReleasesBy(act) == {i \in 1..Len(log) : log[i].act = act /\ log[i].call > 0}

Places(act) == {i \in 1..Len(log) : log[i].act = act}

Min(S) == CHOOSE x \in S : \A y \in S : x <= y

\* The context was constructed (the constructor returned normally).
Constructed == ctor_pc = "done"

\* C1: on a constructed context every shutdown() call (the destructor's
\* included) returns success, and undeclare, the drop of the shared-memory
\* provider (when there is one) and the session close are each issued exactly
\* once in total, all by the first call.
C1_ShutdownReleasesOnce ==
  Constructed =>
    /\ \A i \in 1..Len(shutdown_rets) : shutdown_rets[i] = "OK"
    /\ \A i \in 1..Len(log) : log[i].call > 0 => log[i].call = 1
    /\ Len(shutdown_rets) >= 1 =>
         /\ Cardinality(ReleasesBy("undeclare")) = 1
         /\ Cardinality(ReleasesBy("z_close")) = 1
         /\ Cardinality(ReleasesBy("drop_shm"))
              = (IF shm_provider = "nullopt" THEN 0 ELSE 1)

\* C2: a discovery callback that takes the lock after a shutdown() call has
\* returned makes no graph cache call and does not trigger the guard
\* condition.
C2_NoCacheCallAfterShutdown ==
  \A c \in CbThreads : cb_late[c] => cb_did[c] = "none" /\ ~cb_trig[c]

\* C3: the values returned by get_next_entity_id() are, in the order of the
\* calls, 0, 1, 2, ...: pairwise distinct, without gap, never reused.
C3_EntityIdsContiguous ==
  \A i \in 1..Len(ids_returned) : ids_returned[i] = i - 1

\* Two ids were handed out while discovery events and a shutdown() went on.
C3_Witness ==
  /\ Len(ids_returned) >= 2
  /\ events > 0
  /\ Len(shutdown_rets) > 0

\* The operation that releases what act acquired.
ReleaseOf(act) ==
  IF act = "z_open" THEN "z_close"
  ELSE IF act = "shm_new" THEN "drop_shm"
  ELSE "undeclare"

AcquireActs == {"z_open", "shm_new", "declare"}

\* The place in the log of the first release, after place i, of what was
\* acquired at place i; 0 when there is none.
ReleasedAt(i) ==
  LET after == {j \in (i + 1)..Len(log) : log[j].act = ReleaseOf(log[i].act)}
  IN  IF after = {} THEN 0 ELSE Min(after)

RouterCheckLeft == ctor_pc = "routed" \/ (ctor_pc = "failed" /\ err = "router")

\* C5: with a retry budget N the probe is called until its first success or
\* until N calls have failed: at most N calls, construction goes on iff a
\* call succeeded, and it fails iff N calls were made and all failed.
\* Without a budget the probe is never called and construction goes on.
C5_RetryLoop ==
  RouterCheckLeft =>
    IF ~configured.has
    THEN Len(probe_results) = 0 /\ ctor_pc = "routed"
    ELSE /\ Len(probe_results) <= configured.n
         /\ \A i \in 1..(Len(probe_results) - 1) : probe_results[i].ret = "ERROR"
         /\ ctor_pc = "routed"
              <=> (\E i \in 1..Len(probe_results) : probe_results[i].ret = "OK")
         /\ ctor_pc = "failed"
              <=> /\ Len(probe_results) = configured.n
                  /\ \A i \in 1..Len(probe_results) : probe_results[i].ret = "ERROR"

\* The last call of a full budget succeeded after a failure.
C5_Witness ==
  /\ ctor_pc = "routed"
  /\ configured.has
  /\ Len(probe_results) = configured.n
  /\ Len(probe_results) >= 2

\* The subscription is declared when the operation at place j is issued.
DeclaredAt(j) ==
  \E i \in 1..(j - 1) :
    /\ log[i].act = "declare"
    /\ \A k \in (i + 1)..(j - 1) : log[k].act # "undeclare"

\* C6: whenever a session close is issued the subscription is not declared
\* any more, and in every shutdown() call that releases, the undeclare comes
\* before the drop of the shared-memory provider and before the close.
C6_UndeclareBeforeClose ==
  /\ \A j \in Places("z_close") : ~DeclaredAt(j)
  /\ \A j \in 1..Len(log) :
       (log[j].call > 0 /\ log[j].act \in {"drop_shm", "z_close"})
         => \E h \in 1..(j - 1) :
              log[h].act = "undeclare" /\ log[h].call = log[j].call

\* A shutdown() closed the session of a context whose subscription had been
\* declared and that held a shared-memory provider.
C6_Witness ==
  /\ Places("declare") # {}
  /\ ReleasesBy("drop_shm") # {}
  /\ ReleasesBy("z_close") # {}

\* C10: a probe call returns success iff at least one identity reply was
\* delivered during it and failure iff none was; its counter starts at 0 and
\* counts every reply once.
C10_ProbeCountsReplies ==
  /\ ctor_pc = "probe" => probe_ctx = probe_delivered
  /\ \A i \in 1..Len(probe_results) :
       /\ probe_results[i].count = probe_results[i].delivered
       /\ probe_results[i].ret = "OK" <=> probe_results[i].delivered >= 1
       /\ probe_results[i].ret = "ERROR" <=> probe_results[i].delivered = 0

\* A call without reply failed, and the next one saw two replies.
C10_Witness ==
  /\ Len(probe_results) >= 2
  /\ probe_results[1].delivered = 0
  /\ probe_results[2].delivered = 2
  /\ probe_results[2].ret = "OK"

----------------------------------------------------------------------------
(* Properties of the attachment codec.                                     *)

\* Places of the pairs whose key is exactly key.
ExactPlaces(key) == {i \in 1..Len(attachment) : attachment[i].key = key}

\* C7: lookup succeeds iff some pair has exactly the key, and then returns
\* the value of the first such pair, never a later duplicate's; it fails on
\* an empty attachment.
C7_LookupFirstExactKey ==
  op = "lookup" =>
    /\ res.ok <=> ExactPlaces(op_key) # {}
    /\ res.ok => res.val = attachment[Min(ExactPlaces(op_key))].val
    /\ Len(attachment) = 0 => ~res.ok

\* C8: extract_gid succeeds iff the first source_gid pair exists and its
\* value is exactly RMW_GID_STORAGE_SIZE bytes long, and then returns
\* exactly those bytes; every other case is a failure.
C8_GidExactLength ==
  op = "gid" =>
    /\ res.ok <=> /\ ExactPlaces(GidKey) # {}
                  /\ Len(attachment[Min(ExactPlaces(GidKey))].val)
                       = RMW_GID_STORAGE_SIZE
    /\ res.ok => res.gid = attachment[Min(ExactPlaces(GidKey))].val

\* The decimal texts of the integers C9 is about.
DecimalOf == [v \in (-LONG_MAX)..LONG_MAX |-> ToDecimal(v)]

\* C9: when the pair carrying the requested name holds the decimal text, of
\* at most Int64StrLen characters, of an integer v in -LONG_MAX..LONG_MAX,
\* extract_int64 returns v, except that it returns -1 for v = 0.
C9_Int64RoundTrip ==
  (op = "int64" /\ ExactPlaces(op_key) # {}) =>
    LET text == attachment[Min(ExactPlaces(op_key))].val
    IN  \A v \in (-LONG_MAX)..LONG_MAX :
          (text = DecimalOf[v] /\ Len(text) <= Int64StrLen)
            => /\ res.outcome = "returned"
               /\ res.ret = (IF v = 0 THEN -1 ELSE v)

----------------------------------------------------------------------------
(* Further properties of the context.                                      *)

\* A shutdown() call is about to return the error of a failed close.
CloseFailedIn(t) == pc[t] = "sd_ret" /\ sd_ret[t] = "ERROR"

\* C11: a shutdown() call whose session close failed returns an error with
\* is_shutdown still false, its undeclare (and drop of the shared-memory
\* provider, when there is one) already issued; is_shutdown changes only to
\* true, and only in the step in which a shutdown() call's close succeeded.
C11_CloseFailureLeavesNotShutdown ==
  /\ [](\A t \in Callers :
          CloseFailedIn(t) =>
            /\ ~is_shutdown
            /\ \E i \in ReleasesBy("undeclare") : log[i].call = call_of[t]
            /\ shm_provider # "nullopt" =>
                 \E i \in ReleasesBy("drop_shm") : log[i].call = call_of[t])
  /\ [][is_shutdown' # is_shutdown =>
          /\ is_shutdown'
          /\ \E t \in Callers :
               pc[t] = "sd_close" /\ pc'[t] = "sd_ret" /\ sd_ret'[t] = "OK"]_vars

\* A shutdown() returned the error of a failed close, and a later one closed
\* with success.
C11_Witness ==
  /\ Len(shutdown_rets) >= 2
  /\ shutdown_rets[1] = "ERROR"
  /\ shutdown_rets[2] = "OK"
  /\ is_shutdown

\* C12: the discovery callback does not hold the shared mutex in the step in
\* which it triggers the graph guard condition.
C12_TriggerWithoutLock ==
  [][\A c \in CbThreads : (cb_trig'[c] /\ ~cb_trig[c]) => mutex # c]_vars

\* The thread is at a transport operation: the declare of the subscription,
\* its undeclare, or the close of the session.
AtTransportOp(t) ==
  IF t = "ctor" THEN ctor_pc = "sub_locked"
  ELSE pc[t] \in {"sd_undeclare", "sd_close"}

\* C13: no thread holds the shared mutex while it declares or undeclares the
\* discovery subscription or closes the session.
C13_NoLockAcrossTransport ==
  \A t \in Callers \cup {"ctor"} : AtTransportOp(t) => mutex # t

\* What a callback that handled a sample of this kind and key while
\* is_shutdown was false has called when it returns: trigger is any result
\* of the trigger attempt.
CallsFor(kind, key, trigger) ==
  IF kind = "PUT"
    THEN <<[call |-> "parse_put", arg |-> key], [call |-> "trigger", arg |-> trigger]>>
  ELSE IF kind = "DELETE"
    THEN <<[call |-> "parse_del", arg |-> key], [call |-> "trigger", arg |-> trigger]>>
  ELSE <<>>

\* C14: a callback that handled an event while is_shutdown was false has, on
\* its return, made for a put exactly one parse_put call with the event's key
\* text followed by one trigger attempt, for a delete exactly one parse_del
\* call followed by one trigger attempt, and for any other kind no call at
\* all; whatever the trigger attempt returned, the cache call stays the one
\* call made before it.
C14_DispatchByKind ==
  \A c \in CbThreads :
    /\ (pc[c] = "cb_ret" /\ ~is_shutdown) =>
         \E trigger \in {"OK", "ERROR"} :
           cb_calls[c] = CallsFor(cb_kind[c], cb_key[c], trigger)
    /\ pc[c] = "cb_parse" =>
         cb_calls[c] = SubSeq(CallsFor(cb_kind[c], cb_key[c], "OK"), 1, 1)

\* A delete event was handled and its trigger attempt failed, while another
\* callback waits with an event of another kind.
C14_Witness ==
  \E c, d \in CbThreads :
    /\ pc[c] = "cb_ret"
    /\ ~is_shutdown
    /\ cb_kind[c] = "DELETE"
    /\ Len(cb_calls[c]) = 2
    /\ cb_calls[c][2].arg = "ERROR"
    /\ pc[d] = "cb_wait"
    /\ cb_kind[d] = "OTHER"

\* C15: whenever no method of the context is inside its critical section,
\* is_initialized is true exactly when the discovery subscription is
\* declared: after the construction steps, after a failed subscription and
\* after shutdown.
C15_InitializedIffDeclared ==
  (data_made /\ mutex = "free") =>
    (is_initialized <=> graph_subscriber = "declared")

\* Callback threads inside a graph cache call.
InCacheCall == {c \in CbThreads : pc[c] = "cb_parse"}

\* Threads inside the releases of shutdown() or the counter update of
\* get_next_entity_id().
InExclusiveSection ==
  {t \in Callers : pc[t] \in {"sd_undeclare", "sd_shm", "sd_close"}}
    \cup {t \in AppThreads : pc[t] = "id_locked"}

\* C17: at most one graph cache call of a discovery callback is in progress
\* at a time, and none is in progress while a shutdown() call undeclares,
\* drops or closes or while get_next_entity_id() updates the counter.
C17_CacheCallsSerialized ==
  /\ Cardinality(InCacheCall) <= 1
  /\ InCacheCall # {} => InExclusiveSection = {}

\* A cache call is in progress while another callback, a shutdown() call
\* and a get_next_entity_id() call wait for the lock.
C17_Witness ==
  /\ InCacheCall # {}
  /\ \E d \in CbThreads : pc[d] = "cb_wait"
  /\ \E t \in AppThreads : pc[t] = "sd_wait"
  /\ \E t \in AppThreads : pc[t] = "id_wait"

\* C18: every undeclare is applied to a subscription handle that a declare
\* before it filled with success and that no undeclare has taken since:
\* never to a handle whose declare failed or was not attempted, never a
\* second time.
C18_UndeclareOnlyDeclaredOnce ==
  \A i \in Places("undeclare") : log[i].on = "declared" /\ DeclaredAt(i)

\* The thread is outside every method of the context.
Returned(t) == pc[t] \in {"idle", "destroyed"}

----------------------------------------------------------------------------
(* Further properties of the attachment codec.                             *)

\* t is a decimal numeral: an optional '-' and then one digit or more,
\* nothing else.
IsDecimalText(t) ==
  LET d == IF Len(t) > 0 /\ t[1] = 45 THEN SubSeq(t, 2, Len(t)) ELSE t
  IN  Len(d) > 0 /\ \A i \in 1..Len(d) : d[i] \in 48..57

RECURSIVE DigitsValue(_)
DigitsValue(d) ==
  IF Len(d) = 0 THEN 0
  ELSE 10 * DigitsValue(SubSeq(d, 1, Len(d) - 1)) + (d[Len(d)] - 48)

\* The integer the decimal numeral t denotes.
IntegerOf(t) ==
  IF t[1] = 45 THEN -DigitsValue(SubSeq(t, 2, Len(t))) ELSE DigitsValue(t)

\* C16: extract_int64 returns -1 for an empty attachment, an absent key, a
\* value of length 0 or of more than Int64StrLen characters, a value that is
\* not a decimal numeral (no digits, trailing characters) and a numeral
\* outside the range of long; whenever it returns something else, that is
\* the integer the whole value text of the requested key denotes.
C16_Int64SentinelOnFailure ==
  op = "int64" =>
    LET places == ExactPlaces(op_key)
        text   == IF places = {} THEN <<>> ELSE attachment[Min(places)].val
        fails  == \/ places = {}
                  \/ Len(text) = 0
                  \/ Len(text) > Int64StrLen
                  \/ ~IsDecimalText(text)
                  \/ IntegerOf(text) \notin LONG_MIN..LONG_MAX
    IN  /\ res.outcome = "returned"
        /\ fails => res.ret = -1
        /\ res.ret # -1 => (~fails /\ res.ret = IntegerOf(text))

\* C19: extract_gid and extract_int64 release the string the lookup handed
\* out exactly once on every return after a successful lookup, and never
\* release it when the lookup failed without writing it.
C19_IndexReleasedOnce ==
  op \in {"gid", "int64"} =>
    /\ res.lookup => res.drops = 1
    /\ (~res.lookup /\ ~res.written) => res.drops = 0

====
